---- MODULE Spec2Model ----
(***************************************************************************)
(* A model of the file organizer: FileOrganizer (file_organizer.py), which *)
(* classifies the regular files of a source directory by extension and     *)
(* moves each into a per-category directory, and the worker threads of     *)
(* FileOrganizerGUI (file_organizer_gui.py), which run it with sys.stdout  *)
(* redirected into a buffer.                                               *)
(*                                                                         *)
(* Three specifications share the variables:                               *)
(*   SpecClassify  get_file_category applied to one extension              *)
(*   Spec          organize_files runs of one FileOrganizer on a file      *)
(*                 system, one loop iteration per step                     *)
(*   SpecGui       the worker threads started by the GUI buttons           *)
(***************************************************************************)
EXTENDS Integers, Sequences, FiniteSets, TLC

VARIABLES
  \* the file system
  srcKind,            \* what self.source_dir names: "missing", "file", "dir"
  destKind,           \* self.destination_dir: "same" (the source), "other", "missing"
  srcFiles,           \* regular files directly in the source: {[name, content]}
  catDirs,            \* category labels whose directory exists in the destination
  catFiles,           \* label -> regular files in that category directory
  clock,              \* datetime.now(), in whole seconds
  \* one FileOrganizer and its running organize_files call
  moved_files,        \* self.moved_files
  errors,             \* self.errors
  files_to_organize,  \* the local list built by lines 47-53
  idx,                \* position of the for loop of line 60 (1-based)
  dry_run,            \* the argument of the running (or last) call
  pc,                 \* "idle", "loop"
  lastOutcome,        \* how the last call ended
  out,                \* the lines the running (or last) call printed
  runs,               \* organize_files calls made so far
  \* get_file_category on its own
  probe,              \* an extension (file_path.suffix)
  probeCat,           \* the category returned for it, "none" before the call
  \* the GUI's worker threads
  sys_stdout,         \* the process-wide sys.stdout: "orig" or a worker's buffer
  tpc,                \* worker -> position in run_organizer
  old_stdout,         \* worker -> its local old_stdout
  buffers,            \* worker -> contents of the StringIO it created
  printsLeft,         \* worker -> prints its organize_files call still makes
  shown               \* worker -> the text it inserted into output_text

fsVars  == <<srcKind, destKind, srcFiles, catDirs, catFiles>>
orgVars == <<moved_files, errors, files_to_organize, idx, dry_run, pc,
             lastOutcome, out, runs>>
clsVars == <<probe, probeCat>>
guiVars == <<sys_stdout, tpc, old_stdout, buffers, printsLeft, shown>>
vars    == <<fsVars, clock, orgVars, clsVars, guiVars>>

(***************************************************************************)
(* Bounds of the model.                                                    *)
(***************************************************************************)
MaxClock == 2      \* seconds the clock can show: 1..MaxClock
MaxRuns == 2       \* organize_files calls in one behaviour
NThreads == 2      \* worker threads the GUI starts
MaxPrints == 1     \* print calls one worker's organize_files makes

(***************************************************************************)
(* Strings whose characters matter (extensions) are sequences of           *)
(* one-character strings, so that str.lower() is computed.                 *)
(***************************************************************************)
UpperLetters ==
  <<"A","B","C","D","E","F","G","H","I","J","K","L","M",
    "N","O","P","Q","R","S","T","U","V","W","X","Y","Z">>

LowerLetters ==
  <<"a","b","c","d","e","f","g","h","i","j","k","l","m",
    "n","o","p","q","r","s","t","u","v","w","x","y","z">>

LowerChar(c) ==
  IF \E i \in 1..Len(UpperLetters) : UpperLetters[i] = c
    THEN LowerLetters[CHOOSE i \in 1..Len(UpperLetters) : UpperLetters[i] = c]
    ELSE c

UpperChar(c) ==
  IF \E i \in 1..Len(LowerLetters) : LowerLetters[i] = c
    THEN UpperLetters[CHOOSE i \in 1..Len(LowerLetters) : LowerLetters[i] = c]
    ELSE c

\* str.lower()
Lower(s) == [i \in 1..Len(s) |-> LowerChar(s[i])]

Upper(s) == [i \in 1..Len(s) |-> UpperChar(s[i])]

\* ".jpg" -> ".Jpg"
Capitalized(s) == [i \in 1..Len(s) |-> IF i = 2 THEN UpperChar(s[i]) ELSE s[i]]

FILE_CATEGORIES ==
  <<
    [label |-> "Images",
     extensions |->
          {<<".","j","p","g">>, <<".","j","p","e","g">>, <<".","p","n","g">>,
           <<".","g","i","f">>, <<".","b","m","p">>, <<".","s","v","g">>,
           <<".","w","e","b","p">>, <<".","i","c","o">>, <<".","t","i","f","f">>}],
    [label |-> "Videos",
     extensions |->
          {<<".","m","p","4">>, <<".","a","v","i">>, <<".","m","k","v">>,
           <<".","m","o","v">>, <<".","w","m","v">>, <<".","f","l","v">>,
           <<".","w","e","b","m">>, <<".","m","4","v">>, <<".","m","p","g">>,
           <<".","m","p","e","g">>}],
    [label |-> "Documents",
     extensions |->
          {<<".","p","d","f">>, <<".","d","o","c">>, <<".","d","o","c","x">>,
           <<".","t","x","t">>, <<".","o","d","t">>, <<".","x","l","s">>,
           <<".","x","l","s","x">>, <<".","p","p","t">>, <<".","p","p","t","x">>}],
    [label |-> "Music",
     extensions |->
          {<<".","m","p","3">>, <<".","w","a","v">>, <<".","f","l","a","c">>,
           <<".","a","a","c">>, <<".","o","g","g">>, <<".","w","m","a">>,
           <<".","m","4","a">>, <<".","o","p","u","s">>}],
    [label |-> "Archives",
     extensions |->
          {<<".","z","i","p">>, <<".","r","a","r">>, <<".","7","z">>,
           <<".","t","a","r">>, <<".","g","z">>, <<".","b","z","2">>,
           <<".","x","z">>}],
    [label |-> "Code",
     extensions |->
          {<<".","p","y">>, <<".","j","s">>, <<".","h","t","m","l">>,
           <<".","c","s","s">>, <<".","c","p","p">>, <<".","j","a","v","a">>,
           <<".","c">>, <<".","h">>, <<".","j","s","o","n">>,
           <<".","x","m","l">>, <<".","s","q","l">>}],
    [label |-> "Executables",
     extensions |->
          {<<".","e","x","e">>, <<".","m","s","i">>, <<".","a","p","p">>,
           <<".","d","e","b">>, <<".","r","p","m">>}],
    [label |-> "Data",
     extensions |->
          {<<".","c","s","v">>, <<".","j","s","o","n">>, <<".","x","m","l">>,
           <<".","s","q","l">>, <<".","d","b">>, <<".","s","q","l","i","t","e">>}]
  >>

Labels == {FILE_CATEGORIES[i].label : i \in 1..Len(FILE_CATEGORIES)} \cup {"Others"}

\* the for loop of lines 33-36, from table position i on
RECURSIVE ScanFrom(_, _)
ScanFrom(i, extension) ==
  IF i > Len(FILE_CATEGORIES) THEN "Others"
  ELSE IF extension \in FILE_CATEGORIES[i].extensions
         THEN FILE_CATEGORIES[i].label
         ELSE ScanFrom(i + 1, extension)

\* get_file_category without the .lower() of line 32
get_file_category_exact(suffix) == ScanFrom(1, suffix)

\* get_file_category, given file_path.suffix
get_file_category(suffix) == ScanFrom(1, Lower(suffix))

(***************************************************************************)
(* File names.  A name is its base, the timestamps appended to the stem    *)
(* by line 71, and its suffix: f"{stem}_{timestamp}{suffix}" of the name   *)
(* [base, stamps, suffix] is [base, stamps + timestamp, suffix].           *)
(***************************************************************************)
Name(base, suffix) == [base |-> base, stamps |-> <<>>, suffix |-> suffix]

\* line 71: new_name, with the timestamp t of line 70
Stamped(n, t) == [n EXCEPT !.stamps = Append(@, t)]

N_x == Name("x", <<".","t","x","t">>)

N_p == Name("p", <<".","J","P","G">>)

N_Images == Name("Images", <<>>)

NoName == Name("", <<>>)

\* the names the source directory may hold at the start
SourceNames == {N_x, N_p, N_Images}

\* the directory entry a category directory is: destination_dir / category
LabelName(c) == Name(c, <<>>)

\* a regular file: its name and what it holds.  Contents are told apart by
\* where the file was at the start.
SrcFile(n) == [name |-> n, content |-> [origin |-> "src", of |-> n]]

PreFile(n) == [name |-> n, content |-> [origin |-> "pre", of |-> n]]

NamesIn(dir) == {f.name : f \in dir}

FileNamed(dir, n) == CHOOSE f \in dir : f.name = n

\* what the Documents directory may hold at the start: it is missing
\* (exists = FALSE), empty, holds x.txt, or holds x.txt and the x_<now>.txt
\* that a run of this same second left
PreDocuments ==
  { [exists |-> FALSE, files |-> {}],
    [exists |-> TRUE,  files |-> {}],
    [exists |-> TRUE,  files |-> {PreFile(N_x)}],
    [exists |-> TRUE,  files |-> {PreFile(N_x), PreFile(Stamped(N_x, 1))}] }

(***************************************************************************)
(* The lines organize_files prints.                                        *)
(***************************************************************************)
OutLine(kind, name, category, n) ==
  [kind |-> kind, name |-> name, category |-> category, n |-> n]

\* sorted() of line 110 on the category labels
SortedLabels ==
  <<"Archives", "Code", "Data", "Documents", "Executables", "Images",
    "Music", "Others", "Videos">>

\* lines 103-107: the categories dict
CategoryCounts(moved) ==
  [c \in {moved[i].category : i \in 1..Len(moved)} |->
      Cardinality({i \in 1..Len(moved) : moved[i].category = c})]

RECURSIVE CountLines(_, _)
CountLines(i, counts) ==
  IF i > Len(SortedLabels) THEN <<>>
  ELSE (IF SortedLabels[i] \in DOMAIN counts
          THEN <<OutLine("count", NoName, SortedLabels[i], counts[SortedLabels[i]])>>
          ELSE <<>>) \o CountLines(i + 1, counts)

\* print_summary, lines 88-111
print_summary(d, moved, errs) ==
  <<OutLine("rule", NoName, "", 0)>>
  \o (IF d
        THEN <<OutLine("dry_run_complete", NoName, "", 0)>>
        ELSE <<OutLine("complete", NoName, "", 0),
               OutLine("files_moved", NoName, "", Len(moved))>>
             \o (IF errs # <<>>
                   THEN <<OutLine("errors", NoName, "", Len(errs))>>
                        \o [i \in 1..Len(errs) |->
                              OutLine("error_item", errs[i].name, "", 0)]
                   ELSE <<>>))
  \o (IF moved # <<>>
        THEN <<OutLine("by_category", NoName, "", 0)>>
             \o CountLines(1, CategoryCounts(moved))
        ELSE <<>>)

(***************************************************************************)
(* The file system as organize_files sees it.                              *)
(***************************************************************************)
\* the entries of the source directory, as iterdir yields them: its regular
\* files and, when the destination is the source, the category directories
Listing ==
  {[name |-> f.name, is_file |-> TRUE] : f \in srcFiles}
  \cup (IF destKind = "same"
          THEN {[name |-> LabelName(c), is_file |-> FALSE] : c \in catDirs}
          ELSE {})

\* the orders iterdir may yield a set of entries in
RECURSIVE Orders(_)
Orders(S) ==
  IF S = {} THEN {<<>>}
  ELSE UNION {{<<e>> \o rest : rest \in Orders(S \ {e})} : e \in S}

\* lines 50-53 without the test of line 51
RECURSIVE CollectAll(_)
CollectAll(items) ==
  IF items = <<>> THEN <<>>
  ELSE <<[name |-> Head(items).name,
          category |-> get_file_category(Head(items).name.suffix)]>>
       \o CollectAll(Tail(items))

\* lines 50-53: files_to_organize from the entries in iterdir's order
RECURSIVE Collect(_)
Collect(items) ==
  IF items = <<>> THEN <<>>
  ELSE (IF Head(items).is_file
          THEN <<[name |-> Head(items).name,
                  category |-> get_file_category(Head(items).name.suffix)]>>
          ELSE <<>>)
       \o Collect(Tail(items))

\* a regular file sits where the category directory would be
Blocked(category) ==
  destKind = "same" /\ LabelName(category) \in NamesIn(srcFiles)

\* line 65, category_dir.mkdir(exist_ok=True): "ok" or the exception raised
Mkdir(category) ==
  IF destKind = "missing" THEN "FileNotFoundError"
  ELSE IF category \in catDirs THEN "ok"
  ELSE IF Blocked(category) THEN "FileExistsError"
  ELSE "ok"

\* lines 68-72 with destination always category_dir / file_path.name
DestinationPlain(name, category, dirs, now) == name

\* lines 68-72: the name of destination inside category_dir, given the
\* files the category directories hold after line 65
Destination(name, category, dirs, now) ==
  IF name \in NamesIn(dirs[category]) THEN Stamped(name, now) ELSE name

\* a directory after shutil.move put file f there under the name dest:
\* os.rename replaces a regular file already at dest
MovedInto(dir, f, dest) ==
  {g \in dir : g.name # dest} \cup {[name |-> dest, content |-> f.content]}

(***************************************************************************)
(* Initial values of the parts a specification does not use.               *)
(***************************************************************************)
Workers == 1..NThreads

FsQuiet ==
  /\ srcKind = "dir" /\ destKind = "same"
  /\ srcFiles = {} /\ catDirs = {} /\ catFiles = [c \in Labels |-> {}]
  /\ clock = 1

OrgQuiet ==
  /\ moved_files = <<>> /\ errors = <<>> /\ files_to_organize = <<>>
  /\ idx = 1 /\ dry_run = FALSE /\ pc = "idle" /\ lastOutcome = "none"
  /\ out = <<>> /\ runs = 0

ClsQuiet == probe = <<>> /\ probeCat = "none"

\* a stream: the original sys.stdout, or the StringIO worker t created
OrigStdout == <<"orig", 0>>

StringIO(t) == <<"StringIO", t>>

Unset == <<"unset", 0>>

GuiQuiet ==
  /\ sys_stdout = OrigStdout
  /\ tpc = [t \in Workers |-> "unborn"]
  /\ old_stdout = [t \in Workers |-> Unset]
  /\ buffers = [t \in Workers |-> <<>>]
  /\ printsLeft = [t \in Workers |-> 0]
  /\ shown = [t \in Workers |-> <<>>]

(***************************************************************************)
(* Spec: one FileOrganizer (lines 24-28) over a file system.               *)
(***************************************************************************)
\* FileOrganizer(source_dir, destination_dir) was constructed, lines 24-28;
\* nothing has run
Init ==
  /\ srcKind \in {"missing", "file", "dir"}
  /\ destKind \in {"same", "other", "missing"}
  /\ IF srcKind = "dir"
       THEN \E S \in SUBSET SourceNames : srcFiles = {SrcFile(n) : n \in S}
       ELSE srcFiles = {}
  /\ \E docs \in PreDocuments :
       /\ (destKind = "missing" \/ (destKind = "same" /\ srcKind # "dir"))
            => ~docs.exists
       /\ catDirs = IF docs.exists THEN {"Documents"} ELSE {}
       /\ catFiles = [c \in Labels |-> IF c = "Documents" THEN docs.files ELSE {}]
  /\ clock = 1
  /\ OrgQuiet /\ ClsQuiet /\ GuiQuiet

\* another FileOrganizer on the same two paths replaces the one at hand
Construct ==
  /\ pc = "idle"
  /\ moved_files' = <<>>
  /\ errors' = <<>>
  /\ files_to_organize' = <<>>
  /\ idx' = 1
  /\ lastOutcome' = "none"
  /\ out' = <<>>
  /\ UNCHANGED <<fsVars, clock, dry_run, pc, runs, clsVars, guiVars>>

\* the two prints of lines 44-45
Header(d) == <<OutLine("organizing", NoName, "", IF d THEN 1 ELSE 0),
               OutLine("destination", NoName, "", 0)>>

\* organize_files(dry_run = d) up to the for loop of line 60, lines 40-57
StartRun(d) ==
  /\ pc = "idle"
  /\ runs < MaxRuns
  /\ runs' = runs + 1
  /\ dry_run' = d
  /\ idx' = 1
  /\ CASE srcKind = "missing" ->
            \* lines 40-42
            /\ out' = <<OutLine("no_source", NoName, "", 0)>>
            /\ files_to_organize' = <<>>
            /\ lastOutcome' = "source_not_found"
            /\ pc' = "idle"
       [] srcKind = "file" ->
            \* exists() holds; iterdir of line 50 raises NotADirectoryError
            /\ out' = Header(d)
            /\ files_to_organize' = <<>>
            /\ lastOutcome' = "raised"
            /\ pc' = "idle"
       [] OTHER ->
            \E order \in Orders(Listing) :
              /\ files_to_organize' = Collect(order)
              /\ IF files_to_organize' = <<>>
                   THEN \* lines 55-57
                        /\ out' = Header(d) \o <<OutLine("no_files", NoName, "", 0)>>
                        /\ lastOutcome' = "nothing_to_organize"
                        /\ pc' = "idle"
                   ELSE /\ out' = Header(d)
                        /\ lastOutcome' = "running"
                        /\ pc' = "loop"
  /\ UNCHANGED <<fsVars, clock, moved_files, errors, clsVars, guiVars>>

\* one iteration of the for loop of line 60, lines 61-83
ProcessFile ==
  /\ pc = "loop"
  /\ idx <= Len(files_to_organize)
  /\ LET name     == files_to_organize[idx].name
         category == files_to_organize[idx].category
     IN
     IF dry_run
       THEN \* line 83
            /\ out' = Append(out, OutLine("would_move", name, category, 0))
            /\ idx' = idx + 1
            /\ UNCHANGED <<fsVars, moved_files, errors, pc, lastOutcome>>
       ELSE
         IF Mkdir(category) # "ok"
           THEN \* line 65 raises: the call ends there
                /\ pc' = "idle"
                /\ lastOutcome' = "raised"
                /\ UNCHANGED <<fsVars, moved_files, errors, idx, out>>
           ELSE
             LET dest == Destination(name, category, catFiles, clock) IN
             /\ catDirs' = catDirs \cup {category}
             /\ idx' = idx + 1
             /\ \/ \* line 76 moves the file, lines 77-78
                   /\ name \in NamesIn(srcFiles)
                   /\ srcFiles' = {f \in srcFiles : f.name # name}
                   /\ catFiles' = [catFiles EXCEPT ![category] =
                         MovedInto(@, FileNamed(srcFiles, name), dest)]
                   /\ moved_files' = Append(moved_files,
                                        [name |-> name, category |-> category])
                   /\ out' = Append(out, OutLine("moved", name, category, 0))
                   /\ UNCHANGED errors
                \/ \* line 76 raises (permission denied, ...), lines 79-81
                   /\ errors' = Append(errors, [name |-> name, error |-> "OSError"])
                   /\ out' = Append(out, OutLine("error", name, "", 0))
                   /\ UNCHANGED <<srcFiles, catFiles, moved_files>>
             /\ UNCHANGED <<srcKind, destKind, pc, lastOutcome>>
  /\ UNCHANGED <<clock, files_to_organize, dry_run, runs, clsVars, guiVars>>

\* the loop is over: line 86 and the return
Summary ==
  /\ pc = "loop"
  /\ idx > Len(files_to_organize)
  /\ out' = out \o print_summary(dry_run, moved_files, errors)
  /\ pc' = "idle"
  /\ lastOutcome' = "complete"
  /\ UNCHANGED <<fsVars, clock, moved_files, errors, files_to_organize, idx,
                 dry_run, runs, clsVars, guiVars>>

\* a second passes
Tick ==
  /\ clock < MaxClock
  /\ clock' = clock + 1
  /\ UNCHANGED <<fsVars, orgVars, clsVars, guiVars>>

Next ==
  \/ Construct
  \/ \E d \in BOOLEAN : StartRun(d)
  \/ ProcessFile
  \/ Summary
  \/ Tick

Spec == Init /\ [][Next]_vars

(***************************************************************************)
(* SpecClassify: get_file_category applied to one extension.               *)
(***************************************************************************)
TableExtensions ==
  UNION {FILE_CATEGORIES[i].extensions : i \in 1..Len(FILE_CATEGORIES)}

\* the extensions tried: every extension of the table in lower case, in
\* upper case and capitalized, and some that no category lists
ProbeExtensions ==
  TableExtensions
  \cup {Upper(e) : e \in TableExtensions}
  \cup {Capitalized(e) : e \in TableExtensions}
  \cup { <<>>, <<".","x","y","z">>, <<".","X","Y","Z">>, <<".","j","p">>,
         <<".","j","p","g","x">>, <<".","J","s","O","n">>, <<".","s","Q","L">>,
         <<".","x","M","l">>, <<"j","p","g">> }

InitClassify ==
  /\ probe \in ProbeExtensions
  /\ probeCat = "none"
  /\ FsQuiet /\ OrgQuiet /\ GuiQuiet

\* category = self.get_file_category(item), line 52
Classify ==
  /\ probeCat = "none"
  /\ probeCat' = get_file_category(probe)
  /\ UNCHANGED <<fsVars, clock, orgVars, probe, guiVars>>

NextClassify == Classify

SpecClassify == InitClassify /\ [][NextClassify]_vars

(***************************************************************************)
(* SpecGui: the worker threads of FileOrganizerGUI.organize_files.  Each   *)
(* click starts one; a worker's statements interleave with the others'.    *)
(***************************************************************************)
\* the window is up and no button has been clicked
InitGui == GuiQuiet /\ FsQuiet /\ OrgQuiet /\ ClsQuiet

\* a button is clicked: lines 138-147 and 177-179 start worker t
Click(t) ==
  /\ tpc[t] = "unborn"
  /\ tpc' = [tpc EXCEPT ![t] = "save"]
  /\ UNCHANGED <<fsVars, clock, orgVars, clsVars, sys_stdout, old_stdout,
                 buffers, printsLeft, shown>>

\* lines 151-159: old_stdout = sys.stdout
SaveStdout(t) ==
  /\ tpc[t] = "save"
  /\ old_stdout' = [old_stdout EXCEPT ![t] = sys_stdout]
  /\ tpc' = [tpc EXCEPT ![t] = "redirect"]
  /\ UNCHANGED <<fsVars, clock, orgVars, clsVars, sys_stdout, buffers,
                 printsLeft, shown>>

\* line 160: sys.stdout = StringIO(); line 162 calls organize_files
Redirect(t) ==
  /\ tpc[t] = "redirect"
  /\ sys_stdout' = StringIO(t)
  /\ printsLeft' = [printsLeft EXCEPT ![t] = MaxPrints]
  /\ tpc' = [tpc EXCEPT ![t] = "organize"]
  /\ UNCHANGED <<fsVars, clock, orgVars, clsVars, old_stdout, buffers, shown>>

\* one print of worker t's organize_files: it writes to whatever sys.stdout
\* is at that moment
PrintLine(t) ==
  /\ tpc[t] = "organize"
  /\ printsLeft[t] > 0
  /\ printsLeft' = [printsLeft EXCEPT ![t] = @ - 1]
  /\ buffers' = IF sys_stdout = OrigStdout
                  THEN buffers
                  ELSE [buffers EXCEPT ![sys_stdout[2]] = Append(@, t)]
  /\ UNCHANGED <<fsVars, clock, orgVars, clsVars, sys_stdout, tpc, old_stdout,
                 shown>>

\* organize_files returns to line 164
Return(t) ==
  /\ tpc[t] = "organize"
  /\ printsLeft[t] = 0
  /\ tpc' = [tpc EXCEPT ![t] = "getvalue"]
  /\ UNCHANGED <<fsVars, clock, orgVars, clsVars, sys_stdout, old_stdout,
                 buffers, printsLeft, shown>>

\* organize_files raises (line 50 or line 65): the handler of lines 173-175
\* runs and the worker ends
Raise(t) ==
  /\ tpc[t] = "organize"
  /\ printsLeft[t] = 0
  /\ tpc' = [tpc EXCEPT ![t] = "done"]
  /\ UNCHANGED <<fsVars, clock, orgVars, clsVars, sys_stdout, old_stdout,
                 buffers, printsLeft, shown>>

\* line 164: output = sys.stdout.getvalue(), which line 167 inserts.  The
\* original stream has no getvalue: AttributeError, lines 173-175
GetValue(t) ==
  /\ tpc[t] = "getvalue"
  /\ IF sys_stdout = OrigStdout
       THEN /\ tpc' = [tpc EXCEPT ![t] = "done"]
            /\ UNCHANGED shown
       ELSE /\ shown' = [shown EXCEPT ![t] = buffers[sys_stdout[2]]]
            /\ tpc' = [tpc EXCEPT ![t] = "restore"]
  /\ UNCHANGED <<fsVars, clock, orgVars, clsVars, sys_stdout, old_stdout,
                 buffers, printsLeft>>

\* line 165: sys.stdout = old_stdout; lines 167-171 and the worker ends
Restore(t) ==
  /\ tpc[t] = "restore"
  /\ sys_stdout' = old_stdout[t]
  /\ tpc' = [tpc EXCEPT ![t] = "done"]
  /\ UNCHANGED <<fsVars, clock, orgVars, clsVars, old_stdout, buffers,
                 printsLeft, shown>>

NextGui ==
  \E t \in Workers :
    \/ Click(t)
    \/ SaveStdout(t)
    \/ Redirect(t)
    \/ PrintLine(t)
    \/ Return(t)
    \/ Raise(t)
    \/ GetValue(t)
    \/ Restore(t)

SpecGui == InitGui /\ [][NextGui]_vars

(***************************************************************************)
(* Properties.                                                             *)
(***************************************************************************)
SnapshotNames == {files_to_organize[i].name : i \in 1..Len(files_to_organize)}

\* the step is one loop iteration of a run that moves files
MovingIteration == pc = "loop" /\ ~dry_run /\ idx <= Len(files_to_organize)

\* the step belongs to a preview run over a non-empty source: its start,
\* one of its loop iterations, or its summary
PreviewStep ==
  \/ pc = "idle" /\ runs' = runs + 1 /\ dry_run' /\ pc' = "loop"
  \/ pc = "loop" /\ dry_run

\* the label of the first category, in table order, that lists the
\* lowercased extension
FirstMatch(e) ==
  LET hits == {i \in 1..Len(FILE_CATEGORIES) :
                 Lower(e) \in FILE_CATEGORIES[i].extensions}
  IN IF hits = {} THEN "Others"
     ELSE FILE_CATEGORIES[CHOOSE i \in hits : \A j \in hits : i <= j].label

DeclaredTwice ==
  { <<".","j","s","o","n">>, <<".","x","m","l">>, <<".","s","q","l">> }

\* C1: a run that moves files over a valid source is never aborted by one
\* file's failure: it completes, every file of the snapshot has a success or
\* a failure record, and each file that could not be moved has exactly one
\* failure record.
C1_FailureNeverAborts ==
  (pc = "idle" /\ ~dry_run /\ srcKind = "dir"
     /\ lastOutcome \in {"complete", "raised"})
  => /\ lastOutcome = "complete"
     /\ \A n \in SnapshotNames :
          \/ \E j \in 1..Len(moved_files) : moved_files[j].name = n
          \/ \E j \in 1..Len(errors) : errors[j].name = n
     /\ \A n \in SnapshotNames \cap NamesIn(srcFiles) :
          Cardinality({j \in 1..Len(errors) : errors[j].name = n}) = 1

\* C2: every step of a preview run over a non-empty source leaves the file
\* system unchanged and the success and failure lists empty, and when the
\* run ends it has printed, for every file of the snapshot, the category
\* the file would be assigned.
C2_PreviewTouchesNothing ==
  [][PreviewStep =>
       /\ UNCHANGED fsVars
       /\ moved_files' = <<>> /\ errors' = <<>>
       /\ pc' = "idle" =>
            \A n \in SnapshotNames :
              \E k \in 1..Len(out') :
                out'[k] = OutLine("would_move", n, FirstMatch(n.suffix), 0)]_vars

\* The part of C2 about the file system and the report: every step of a
\* preview run leaves the file system and both lists as they were, and the
\* run prints every file's category.
PreviewFrame ==
  [][PreviewStep =>
       /\ UNCHANGED <<fsVars, moved_files, errors>>
       /\ pc' = "idle" =>
            \A n \in SnapshotNames :
              \E k \in 1..Len(out') :
                out'[k] = OutLine("would_move", n, FirstMatch(n.suffix), 0)]_vars

\* C3: when a move succeeds and the category directory already held a file
\* of the same name, the incoming file is there afterwards under the name
\* with the timestamp between stem and suffix, the file that was there is
\* still there with its content, and the two names differ.
C3_CollisionRenamed ==
  [][(MovingIteration /\ Len(moved_files') = Len(moved_files) + 1) =>
       LET name     == files_to_organize[idx].name
           category == files_to_organize[idx].category
           stamped  == [base |-> name.base,
                        stamps |-> name.stamps \o <<clock>>,
                        suffix |-> name.suffix]
       IN name \in NamesIn(catFiles[category]) =>
            /\ stamped # name
            /\ [name |-> stamped, content |-> FileNamed(srcFiles, name).content]
                 \in catFiles'[category]
            /\ FileNamed(catFiles[category], name) \in catFiles'[category]
            /\ Cardinality({f \in catFiles'[category] :
                              f.name \in {name, stamped}}) = 2]_vars

\* C3's case: Documents holds the x.txt that was there before and the
\* x.txt of the source under its timestamped name
C3_Witness ==
  /\ PreFile(N_x) \in catFiles["Documents"]
  /\ \E t \in 1..clock :
       [name |-> Stamped(N_x, t), content |-> SrcFile(N_x).content]
         \in catFiles["Documents"]

\* C4: no step overwrites or removes a file of a category directory, and a
\* move whose timestamped destination is already occupied is recorded as a
\* failure, not as a success.
C4_OccupiedRenameFails ==
  [][/\ \A c \in Labels : catFiles[c] \subseteq catFiles'[c]
     /\ (MovingIteration /\ pc' = "loop") =>
          LET name     == files_to_organize[idx].name
              category == files_to_organize[idx].category
          IN {name, Stamped(name, clock)} \subseteq NamesIn(catFiles[category])
             => /\ moved_files' = moved_files
                /\ Len(errors') = Len(errors) + 1
                /\ errors'[Len(errors')].name = name]_vars

\* C5: a call whose source is missing or is not a directory ends at once
\* with "source not found": the file system and both lists stay as they
\* were.
C5_SourceNotFound ==
  [][(pc = "idle" /\ runs' = runs + 1 /\ srcKind # "dir") =>
       /\ lastOutcome' = "source_not_found"
       /\ pc' = "idle"
       /\ UNCHANGED <<fsVars, moved_files, errors>>]_vars

\* C6: the category returned for an extension, in any letter case, is the
\* label of the first category in table order that lists the lowercased
\* extension, "Others" when none does; .json, .xml and .sql give "Code".
C6_FirstMatchAnyCase ==
  probeCat # "none" =>
    /\ probeCat = FirstMatch(probe)
    /\ Lower(probe) \in DeclaredTwice => probeCat = "Code"
    /\ Lower(probe) \notin TableExtensions => probeCat = "Others"

\* C6's case: ".JsOn", listed under Code and Data, was classified
C6_Witness == probe = <<".","J","s","O","n">> /\ probeCat = "Code"

\* C7: after a completed run that moves files, every file of the snapshot
\* has exactly one outcome: one success record, and then the file is gone
\* from the source and sits in the record's category directory under the
\* name the record holds; or one failure record, and then the file is in
\* the source as it was.
C7_ExactlyOneOutcome ==
  (pc = "idle" /\ lastOutcome = "complete" /\ ~dry_run) =>
    \A i \in 1..Len(files_to_organize) :
      LET n    == files_to_organize[i].name
          c    == files_to_organize[i].category
          succ == {j \in 1..Len(moved_files) :
                     moved_files[j].name = n /\ moved_files[j].category = c}
          fail == {j \in 1..Len(errors) : errors[j].name = n}
      IN \/ /\ Cardinality(succ) = 1 /\ fail = {}
            /\ n \notin NamesIn(srcFiles)
            /\ [name |-> n, content |-> SrcFile(n).content] \in catFiles[c]
         \/ /\ succ = {} /\ Cardinality(fail) = 1
            /\ SrcFile(n) \in srcFiles

\* C8: both lists are empty when a run starts its loop, and when a run has
\* completed, the lists and the per-category counts it printed hold only
\* outcomes of files of that run's snapshot.
C8_SummaryPerRun ==
  /\ (pc = "loop" /\ idx = 1) => (moved_files = <<>> /\ errors = <<>>)
  /\ (pc = "idle" /\ lastOutcome = "complete") =>
       /\ \A j \in 1..Len(moved_files) : moved_files[j].name \in SnapshotNames
       /\ \A j \in 1..Len(errors) : errors[j].name \in SnapshotNames
       /\ Len(moved_files) + Len(errors) <= Len(files_to_organize)
       /\ \A k \in 1..Len(out) :
            out[k].kind = "count" =>
              out[k].n <= Cardinality({i \in 1..Len(files_to_organize) :
                            files_to_organize[i].category = out[k].category})

\* C9: the listing is taken once, before the first move: the snapshot
\* holds exactly the regular files that are direct children of the source
\* at that moment, each once; during the loop every entry not yet reached
\* is still in the source, and a step that changes anything leaves the
\* snapshot as it is, advances by one entry, makes at most one record,
\* takes no file out of the source but that entry, and takes no name out
\* of a category directory.
C9_SnapshotOnce ==
  [][/\ (pc = "idle" /\ pc' = "loop") =>
          /\ {files_to_organize'[i].name : i \in 1..Len(files_to_organize')}
               = NamesIn(srcFiles)
          /\ \A i, j \in 1..Len(files_to_organize') :
               files_to_organize'[i].name = files_to_organize'[j].name => i = j
     /\ pc = "loop" =>
          \A i \in idx..Len(files_to_organize) :
            files_to_organize[i].name \in NamesIn(srcFiles)
     /\ (pc = "loop" /\ pc' = "loop" /\ <<fsVars, orgVars>>' # <<fsVars, orgVars>>) =>
          /\ files_to_organize' = files_to_organize
          /\ idx' = idx + 1
          /\ NamesIn(srcFiles) \ NamesIn(srcFiles')
               \subseteq {files_to_organize[idx].name}
          /\ Len(moved_files') + Len(errors') <= Len(moved_files) + Len(errors) + 1
          /\ \A c \in Labels : NamesIn(catFiles[c]) \subseteq NamesIn(catFiles'[c])]_vars

\* C9's case: source and destination are the same directory, the first
\* run has moved a file into a category directory there, and its loop has
\* entries left
C9_Witness ==
  /\ destKind = "same" /\ runs = 1
  /\ pc = "loop" /\ ~dry_run
  /\ 1 < idx /\ idx <= Len(files_to_organize)
  /\ \E c \in catDirs : \E f \in catFiles[c] : f.content.origin = "src"

\* C10: once every worker that was started has ended, sys.stdout is the
\* original stream, and what each worker displayed was printed by its own
\* organize_files call.
C10_StdoutRestored ==
  ((\A t \in Workers : tpc[t] \in {"unborn", "done"})
     /\ (\E t \in Workers : tpc[t] = "done"))
  => /\ sys_stdout = OrigStdout
     /\ \A t \in Workers : \A k \in 1..Len(shown[t]) : shown[t][k] = t

====
